---- MODULE Spec2Model ----
(***************************************************************************)
(* Model of the fixture test engine of cargo-gtest (src/src/io.rs):        *)
(* the control protocol dispatcher `Handler::dispatch`, the CRUD           *)
(* operations over the fixture collection, and `Handler::run_fixtures`     *)
(* with the per-fixture futures it builds.                                 *)
(*                                                                         *)
(* Spec        the Handler as coded: one action per Control command.       *)
(* FutureSpec  the per-fixture futures of io.rs:178-230 driven by an       *)
(*             executor (start, then one wake-up per delivered reply).     *)
(*             run_fixtures itself drops `fixtures_stream` without ever    *)
(*             polling it, so these steps are not reachable under Spec.    *)
(***************************************************************************)
EXTENDS Integers, Sequences, FiniteSets, TLC

VARIABLES
    fixtures,    \* service.fixtures(): the fixture collection (1-based Seq, index i of the code is i+1)
    owner,       \* Handler.owner
    target,      \* environment: what the target actor answers to a request payload
    last,        \* the Control command of the last dispatch, with its arguments
    reply,       \* the Reply of the last dispatch
    stream,      \* fixtures_stream: fixture_no -> state of that fixture's future
    trace,       \* fixture_no -> the requests sent to / replies received from the target
    fails_list,  \* the local `fails_list` of run_fixtures
    replaced,    \* history: new_owner of the latest ReplaceOwner, "" before the first
    readers,     \* read guards alive on the RwLock around the service
    waiting,     \* the CRUD commands suspended in `self.service.write().await`
    twin,        \* a second Handler given the same commands (OwnerSpec)
    CONTEXT_FUTURES,  \* the static Vec of registered test futures (wasm.rs)
    outbox,      \* wasm.rs: the messages sent by the last entry point or poll
    call,        \* wasm.rs: the last entry point invoked or future polled
    signal       \* wasm.rs: the message being handled (its source, its ControlSignal)

vars == <<fixtures, owner, target, last, reply, stream, trace, fails_list, replaced,
          readers, waiting, twin, CONTEXT_FUTURES, outbox, call, signal>>

\* The lock and the second handler
lockVars == <<readers, waiting, twin>>

\* The state of the test program (wasm.rs)
wasmVars == <<CONTEXT_FUTURES, outbox, call, signal>>

\* The state of the Handler and of its run
handlerVars == <<fixtures, owner, target, last, reply, stream, trace, fails_list, replaced>>

(***************************************************************************)
(* Bounds                                                                  *)
(***************************************************************************)
MaxFixtures == 2      \* longest fixture collection explored
MaxGas == 4           \* largest gas_available explored
MaxWaiting == 1       \* most CRUD commands suspended on the lock at once
MaxTests == 3         \* most test futures registered in CONTEXT_FUTURES

Owners == {"alice", "bob"}
Payloads == {"X", "Y"}

(***************************************************************************)
(* Data                                                                    *)
(***************************************************************************)
None == [some |-> FALSE, v |-> ""]
Some(x) == [some |-> TRUE, v |-> x]

\* service::Message as used by io.rs: preparation.payload / preparation.gas
Request(p, g) == [payload |-> p, gas |-> g]

\* service::Expectation as used by io.rs: expectation.request, expectation.response.payload
Expectation(p, g, e) == [request |-> Request(p, g), response |-> [payload |-> e]]

\* service::Fixture as used by io.rs: fixture.preparation, fixture.expectations
Fixture(preps, exps) == [preparation |-> preps, expectations |-> exps]

\* The fixtures an operator supplies to AddFixture / UpdateFixture.
FixturePool ==
    { Fixture(<< >>, << >>),
      Fixture(<< >>, << Expectation("X", 1, Some("X")) >>),
      Fixture(<< Request("X", 1) >>, << Expectation("Y", 1, None) >>),
      Fixture(<< >>, << Expectation("X", 1, None), Expectation("Y", 2, Some("Y")) >>),
      Fixture(<< Request("X", 1), Request("Y", 1) >>, << Expectation("Y", 1, Some("X")) >>) }

\* What awaiting a reply yields: Ok(payload) or Err(e)   (io.rs:206, 208-226)
OkReply(p) == [ok |-> TRUE, payload |-> p]
ErrReply == [ok |-> FALSE, payload |-> ""]
ReplyOutcomes == {OkReply(p) : p \in Payloads} \cup {ErrReply}

Targets == [Payloads -> ReplyOutcomes]

\* The address requests are sent to: ref_svc.address()
address == "target"

\* Reply values (Reply::none(), and the encodings produced by `.into()`)
ReplyNone == [kind |-> "None"]
ReplyOwner(o) == [kind |-> "Owner", owner |-> o]
ReplyFixtures(fs) == [kind |-> "Fixtures", fixtures |-> fs]
ReplyOk == [kind |-> "Ok"]
ReplyNotFound == [kind |-> "NotFound"]
ReplyReport(ix) == [kind |-> "Report", indices |-> ix]
ReplyNotEnoughGas(a, n) == [kind |-> "NotEnoughGas", actual |-> a, needed |-> n]

\* A future of fixtures_stream that was pushed and not polled yet.
Created == [pc |-> "created", step |-> 0, result |-> ErrReply, output |-> "none"]

NewStream(fs) == [no \in 0 .. Len(fs) - 1 |-> Created]
NewTrace(fs) == [no \in 0 .. Len(fs) - 1 |-> << >>]
NoStream == [no \in {} |-> Created]
NoTrace == [no \in {} |-> << >>]

(***************************************************************************)
(* service::Service (not part of the sources at hand)                      *)
(***************************************************************************)
RECURSIVE SumGas(_)
SumGas(s) == IF s = << >> THEN 0 ELSE Head(s).gas + SumGas(Tail(s))

RECURSIVE SumExpGas(_)
SumExpGas(s) == IF s = << >> THEN 0 ELSE Head(s).request.gas + SumExpGas(Tail(s))

RECURSIVE gas_required(_)
gas_required(fs) ==
    IF fs = << >> THEN 0
    ELSE SumGas(Head(fs).preparation) + SumExpGas(Head(fs).expectations)
         + gas_required(Tail(fs))

drop_fixture(fs, index) ==
    [j \in 1 .. Len(fs) - 1 |-> IF j < index + 1 THEN fs[j] ELSE fs[j + 1]]

add_fixture(fs, f) == Append(fs, f)

clear_fixtures(fs) == << >>

(***************************************************************************)
(* Handler                                                                 *)
(***************************************************************************)
\* No guard alive, nothing suspended, no second handler.
LockIdle ==
    /\ readers = 0
    /\ waiting = << >>
    /\ twin = [fixtures |-> << >>, owner |-> "", reply |-> ReplyNone]

\* The test program before any of its entry points ran.
WasmIdle ==
    /\ CONTEXT_FUTURES = << >>
    /\ outbox = << >>
    /\ call = [entry |-> "none"]
    /\ signal = [source |-> "", deployed_actor |-> ""]

Init ==
    /\ LockIdle
    /\ WasmIdle
    /\ fixtures = << >>
    /\ owner \in Owners
    /\ target \in Targets
    /\ last = [cmd |-> "Init"]
    /\ reply = ReplyNone
    /\ stream = NoStream
    /\ trace = NoTrace
    /\ fails_list = << >>
    /\ replaced = ""

\* Outside RunFixtures there is no fixtures_stream (the futures of an earlier run
\* were dropped when run_fixtures returned); the target and fails_list are untouched.
NoRun ==
    /\ stream' = NoStream
    /\ trace' = NoTrace
    /\ UNCHANGED <<target, fails_list>>
    /\ UNCHANGED lockVars
    /\ UNCHANGED wasmVars

\* dispatch arm ReplaceOwner without the assignment to self.owner
ReplaceOwner_not_stored ==
    \E new_owner \in Owners :
        /\ last' = [cmd |-> "ReplaceOwner", new_owner |-> new_owner]
        /\ replaced' = new_owner
        /\ reply' = ReplyNone
        /\ UNCHANGED <<fixtures, owner>>
        /\ NoRun

get_owner == owner

GetOwner ==
    /\ last' = [cmd |-> "GetOwner"]
    /\ reply' = ReplyOwner(get_owner)
    /\ UNCHANGED <<fixtures, owner, replaced>>
    /\ NoRun

ReplaceOwner ==
    \E new_owner \in Owners :
        /\ last' = [cmd |-> "ReplaceOwner", new_owner |-> new_owner]
        /\ owner' = new_owner
        /\ replaced' = new_owner
        /\ reply' = ReplyNone
        /\ UNCHANGED fixtures
        /\ NoRun

get_fixtures == fixtures

GetFixtures ==
    /\ last' = [cmd |-> "GetFixtures"]
    /\ reply' = ReplyFixtures(get_fixtures)
    /\ UNCHANGED <<fixtures, owner, replaced>>
    /\ NoRun

\* remove_fixture(index): <<collection afterwards, result>>
remove_fixture_off_by_one(fs, index) ==
    IF index <= Len(fs) /\ Len(fs) > 0
    THEN <<drop_fixture(fs, IF index < Len(fs) THEN index ELSE Len(fs) - 1), ReplyOk>>
    ELSE <<fs, ReplyNotFound>>

remove_fixture_first(fs, index) ==
    IF index < Len(fs)
    THEN <<drop_fixture(fs, 0), ReplyOk>>
    ELSE <<fs, ReplyNotFound>>

remove_fixture(fs, index) ==
    IF index < Len(fs)
    THEN <<drop_fixture(fs, index), ReplyOk>>
    ELSE <<fs, ReplyNotFound>>

RemoveFixture ==
    \E index \in 0 .. MaxFixtures + 1 :
        /\ last' = [cmd |-> "RemoveFixture", index |-> index]
        /\ fixtures' = remove_fixture(fixtures, index)[1]
        /\ reply' = remove_fixture(fixtures, index)[2]
        /\ UNCHANGED <<owner, replaced>>
        /\ NoRun

\* update_fixture(index, fixture): <<collection afterwards, result>>
update_fixture(fs, index, fixture) ==
    IF index < Len(fs)
    THEN <<[fs EXCEPT ![index + 1] = fixture], ReplyOk>>
    ELSE <<fs, ReplyNotFound>>

UpdateFixture ==
    \E index \in 0 .. MaxFixtures + 1, fixture \in FixturePool :
        /\ last' = [cmd |-> "UpdateFixture", index |-> index, fixture |-> fixture]
        /\ fixtures' = update_fixture(fixtures, index, fixture)[1]
        /\ reply' = update_fixture(fixtures, index, fixture)[2]
        /\ UNCHANGED <<owner, replaced>>
        /\ NoRun

AddFixture ==
    \E fixture \in FixturePool :
        /\ Len(fixtures) < MaxFixtures
        /\ last' = [cmd |-> "AddFixture", fixture |-> fixture]
        /\ fixtures' = add_fixture(fixtures, fixture)
        /\ reply' = ReplyNone
        /\ UNCHANGED <<owner, replaced>>
        /\ NoRun

ClearFixtures ==
    /\ last' = [cmd |-> "ClearFixtures"]
    /\ fixtures' = clear_fixtures(fixtures)
    /\ reply' = ReplyNone
    /\ UNCHANGED <<owner, replaced>>
    /\ NoRun

\* FailedFixtures::default().indices
FailedFixturesDefault == << >>

\* run_fixtures up to its return value: the admission check, then the report
run_fixtures_inverted(fs, gas_available) ==
    IF gas_available > gas_required(fs)
    THEN ReplyNotEnoughGas(gas_available, gas_required(fs))
    ELSE ReplyReport(FailedFixturesDefault)

run_fixtures_strict(fs, gas_available) ==
    IF gas_available <= gas_required(fs)
    THEN ReplyNotEnoughGas(gas_available, gas_required(fs))
    ELSE ReplyReport(FailedFixturesDefault)

run_fixtures(fs, gas_available) ==
    IF gas_available < gas_required(fs)
    THEN ReplyNotEnoughGas(gas_available, gas_required(fs))
    ELSE ReplyReport(FailedFixturesDefault)

\* RunFixtures: on admission one future per fixture is pushed to fixtures_stream;
\* none is polled before run_fixtures returns, and the stream is dropped with it.
RunFixtures ==
    \E gas_available \in 0 .. MaxGas :
        /\ last' = [cmd |-> "RunFixtures", gas_available |-> gas_available]
        /\ reply' = run_fixtures(fixtures, gas_available)
        /\ IF reply'.kind = "Report"
           THEN stream' = NewStream(fixtures) /\ trace' = NewTrace(fixtures)
           ELSE stream' = NoStream /\ trace' = NoTrace
        /\ UNCHANGED <<fixtures, owner, target, fails_list, replaced>>
        /\ UNCHANGED lockVars
        /\ UNCHANGED wasmVars

Next ==
    \/ GetOwner
    \/ ReplaceOwner
    \/ GetFixtures
    \/ RemoveFixture
    \/ UpdateFixture
    \/ AddFixture
    \/ ClearFixtures
    \/ RunFixtures

Spec == Init /\ [][Next]_vars

(***************************************************************************)
(* The future of one fixture (the async block pushed to fixtures_stream)   *)
(***************************************************************************)
\* The fixture collections AddFixture can build.
Collections ==
    UNION { [1 .. n -> FixturePool] : n \in 0 .. MaxFixtures }

SendEvent(phase, k, req) ==
    [kind |-> "send", phase |-> phase, step |-> k, to |-> address, payload |-> req.payload]

ReplyEvent(phase, k) ==
    [kind |-> "reply", phase |-> phase, step |-> k, to |-> "", payload |-> ""]

Awaiting(phase, k, result) ==
    [pc |-> phase, step |-> k, result |-> result, output |-> "none"]

Done(k, result, output) ==
    [pc |-> "done", step |-> k, result |-> result, output |-> output]

\* The head of iteration k of the preparation loop (phase "prep") or of the
\* expectation loop (phase "exp"): send the step's request and suspend on its
\* reply, or leave the loop. send_ok: whether send_bytes_for_reply returned Ok.
\* Yields <<future state, events>>.
EnterStep_no_await(fixture, phase, k, send_ok, result) ==
    LET ph == IF phase = "prep" /\ k >= Len(fixture.preparation) THEN "exp" ELSE phase
        kk == IF ph # phase THEN 0 ELSE k
        reqs == IF ph = "prep" THEN fixture.preparation
                ELSE [j \in 1 .. Len(fixture.expectations) |-> fixture.expectations[j].request]
    IN  IF kk >= Len(reqs)
        THEN <<Done(kk, result, "Ok"), << >> >>
        ELSE IF ~send_ok
        THEN <<Done(kk, result,
                    IF ph = "prep" THEN "PreparationSendFail" ELSE "ExpectationSendFail"),
               << >> >>
        ELSE IF kk + 1 < Len(reqs)
        THEN <<Awaiting(ph, kk + 1, result),
               <<SendEvent(ph, kk, reqs[kk + 1]), SendEvent(ph, kk + 1, reqs[kk + 2])>> >>
        ELSE <<Awaiting(ph, kk, result), <<SendEvent(ph, kk, reqs[kk + 1])>> >>

\* EnterStep that notes a failed preparation send but does not return on it.
EnterStep_no_return(fixture, phase, k, send_ok, result) ==
    LET ph == IF phase = "prep" /\ k >= Len(fixture.preparation) THEN "exp" ELSE phase
        kk == IF ph # phase THEN 0 ELSE k
        reqs == IF ph = "prep" THEN fixture.preparation
                ELSE [j \in 1 .. Len(fixture.expectations) |-> fixture.expectations[j].request]
    IN  IF kk >= Len(reqs)
        THEN <<Done(kk, result, "Ok"), << >> >>
        ELSE IF ~send_ok /\ ph = "exp"
        THEN <<Done(kk, result, "ExpectationSendFail"), << >> >>
        ELSE IF ~send_ok /\ Len(fixture.expectations) > 0
        THEN <<[pc |-> "exp", step |-> 0, result |-> result, output |-> "PreparationSendFail"],
               <<SendEvent("exp", 0, fixture.expectations[1].request)>> >>
        ELSE IF ~send_ok
        THEN <<Done(kk, result, "PreparationSendFail"), << >> >>
        ELSE <<Awaiting(ph, kk, result), <<SendEvent(ph, kk, reqs[kk + 1])>> >>

EnterStep(fixture, phase, k, send_ok, result) ==
    LET ph == IF phase = "prep" /\ k >= Len(fixture.preparation) THEN "exp" ELSE phase
        kk == IF ph # phase THEN 0 ELSE k
        reqs == IF ph = "prep" THEN fixture.preparation
                ELSE [j \in 1 .. Len(fixture.expectations) |-> fixture.expectations[j].request]
    IN  IF kk >= Len(reqs)
        THEN <<Done(kk, result, "Ok"), << >> >>
        ELSE IF ~send_ok
        THEN <<Done(kk, result,
                    IF ph = "prep" THEN "PreparationSendFail" ELSE "ExpectationSendFail"),
               << >> >>
        ELSE <<Awaiting(ph, kk, result), <<SendEvent(ph, kk, reqs[kk + 1])>> >>

\* `match result` of an expectation step: "pass", or the RuntimeError it returns.
ExpectationCheck_always_compare(expectation, result) ==
    IF result.ok
    THEN IF expectation.response.payload.v # result.payload
         THEN "PayloadMismatch"
         ELSE "pass"
    ELSE "ExpectationExecutionFail"

ExpectationCheck(expectation, result) ==
    IF result.ok
    THEN IF expectation.response.payload.some
            /\ expectation.response.payload.v # result.payload
         THEN "PayloadMismatch"
         ELSE "pass"
    ELSE "ExpectationExecutionFail"

\* Resume that treats an error reply to a preparation like one to an expectation.
Resume_validates_preparation(fixture, fut, result, send_ok) ==
    IF fut.pc = "prep" /\ ~result.ok
    THEN <<Done(fut.step, result, "ExpectationExecutionFail"), << >> >>
    ELSE IF fut.pc = "prep"
    THEN EnterStep(fixture, "prep", fut.step + 1, send_ok, result)
    ELSE LET check == ExpectationCheck(fixture.expectations[fut.step + 1], result)
         IN  IF check = "pass"
             THEN EnterStep(fixture, "exp", fut.step + 1, send_ok, result)
             ELSE <<Done(fut.step, result, check), << >> >>

\* The future resumed by the reply `result` to its outstanding request.
\* Yields <<future state, events>>.
Resume(fixture, fut, result, send_ok) ==
    IF fut.pc = "prep"
    THEN EnterStep(fixture, "prep", fut.step + 1, send_ok, result)
    ELSE LET check == ExpectationCheck(fixture.expectations[fut.step + 1], result)
         IN  IF check = "pass"
             THEN EnterStep(fixture, "exp", fut.step + 1, send_ok, result)
             ELSE <<Done(fut.step, result, check), << >> >>

\* First poll of the future of fixture fixture_no.
Start(fixture_no) ==
    /\ stream[fixture_no].pc = "created"
    /\ \E send_ok \in BOOLEAN :
        LET r == EnterStep(fixtures[fixture_no + 1], "prep", 0, send_ok, ErrReply)
        IN  /\ stream' = [stream EXCEPT ![fixture_no] = r[1]]
            /\ trace' = [trace EXCEPT ![fixture_no] = @ \o r[2]]
    /\ UNCHANGED <<fixtures, owner, target, last, reply, fails_list, replaced>>
    /\ UNCHANGED lockVars
    /\ UNCHANGED wasmVars

\* The reply to the outstanding request of fixture fixture_no is delivered.
Wake(fixture_no) ==
    /\ stream[fixture_no].pc \in {"prep", "exp"}
    /\ \E result \in ReplyOutcomes, send_ok \in BOOLEAN :
        LET fut == stream[fixture_no]
            r == Resume(fixtures[fixture_no + 1], fut, result, send_ok)
        IN  /\ stream' = [stream EXCEPT ![fixture_no] = r[1]]
            /\ trace' = [trace EXCEPT ![fixture_no] =
                            (@ \o <<ReplyEvent(fut.pc, fut.step)>>) \o r[2]]
    /\ UNCHANGED <<fixtures, owner, target, last, reply, fails_list, replaced>>
    /\ UNCHANGED lockVars
    /\ UNCHANGED wasmVars

\* The read guards alive once run_fixtures holds `service` (io.rs:161); the guard
\* lives until run_fixtures returns.
AfterAdmission_guard_dropped(n) == n

AfterAdmission(n) == n + 1

\* An admitted run_fixtures that has pushed its futures; the replies are chosen
\* at each wake-up, the table `target` is not read here.
FutureInit ==
    /\ readers = AfterAdmission(0)
    /\ waiting = << >>
    /\ twin = [fixtures |-> << >>, owner |-> "", reply |-> ReplyNone]
    /\ WasmIdle
    /\ fixtures \in Collections
    /\ owner = "alice"
    /\ target = [p \in Payloads |-> OkReply(p)]
    /\ last = [cmd |-> "RunFixtures", gas_available |-> gas_required(fixtures)]
    /\ reply = [kind |-> "Pending"]
    /\ stream = NewStream(fixtures)
    /\ trace = NewTrace(fixtures)
    /\ fails_list = << >>
    /\ replaced = ""

StartSome == \E fixture_no \in DOMAIN stream : Start(fixture_no)

WakeSome == \E fixture_no \in DOMAIN stream : Wake(fixture_no)

FutureNext ==
    \/ StartSome
    \/ WakeSome

FutureSpec == FutureInit /\ [][FutureNext]_vars

(***************************************************************************)
(* A run and the CRUD commands of other messages on the same RwLock.       *)
(* Between admission and return run_fixtures as coded polls nothing;       *)
(* RunSpec lets an executor poll the futures any number of times (none     *)
(* included) before the return, so it covers the code as written and any   *)
(* variant that drives fixtures_stream. RunSpec follows one run at a time. *)
(***************************************************************************)
\* The fixtures and commands used around a run.
RunPool ==
    { Fixture(<< >>, << Expectation("X", 1, Some("X")) >>),
      Fixture(<< Request("X", 1) >>, << Expectation("Y", 1, None) >>) }

RunCollections ==
    UNION { [1 .. n -> RunPool] : n \in 0 .. MaxFixtures }

CrudCommands ==
    { [cmd |-> "RemoveFixture", index |-> 0],
      [cmd |-> "UpdateFixture", index |-> 0,
       fixture |-> Fixture(<< >>, << Expectation("X", 1, Some("X")) >>)],
      [cmd |-> "AddFixture", fixture |-> Fixture(<< >>, << Expectation("X", 1, Some("X")) >>)],
      [cmd |-> "ClearFixtures"] }

\* The gas_available values tried: just below and at gas_required.
RunGas(fs) == {g \in {gas_required(fs) - 1, gas_required(fs)} : g >= 0}

\* A CRUD command run under the write guard: <<collection afterwards, reply>>
ApplyCrud(fs, c) ==
    CASE c.cmd = "RemoveFixture" -> remove_fixture(fs, c.index)
      [] c.cmd = "UpdateFixture" -> update_fixture(fs, c.index, c.fixture)
      [] c.cmd = "AddFixture" -> <<add_fixture(fs, c.fixture), ReplyNone>>
      [] c.cmd = "ClearFixtures" -> <<clear_fixtures(fs), ReplyNone>>

\* `self.service.write().await` completes only with no read guard alive.
WriteReady == readers = 0

Adds(q) == Cardinality({j \in 1 .. Len(q) : q[j].cmd = "AddFixture"})

RunInit ==
    /\ LockIdle
    /\ WasmIdle
    /\ fixtures \in RunCollections
    /\ owner = "alice"
    /\ target = [p \in Payloads |-> OkReply(p)]
    /\ last = [cmd |-> "Init"]
    /\ reply = ReplyNone
    /\ stream = NoStream
    /\ trace = NoTrace
    /\ fails_list = << >>
    /\ replaced = ""

\* RunFixtures arrives: the read guard is taken, the admission check made and,
\* when admitted, the futures pushed.
RunBegin ==
    /\ reply.kind # "Pending"
    /\ waiting = << >>
    /\ \E gas_available \in RunGas(fixtures) :
        /\ last' = [cmd |-> "RunFixtures", gas_available |-> gas_available]
        /\ IF run_fixtures(fixtures, gas_available).kind = "Report"
           THEN /\ reply' = [kind |-> "Pending"]
                /\ stream' = NewStream(fixtures)
                /\ trace' = NewTrace(fixtures)
                /\ readers' = AfterAdmission(readers)
           ELSE /\ reply' = run_fixtures(fixtures, gas_available)
                /\ stream' = NoStream
                /\ trace' = NoTrace
                /\ readers' = readers
    /\ UNCHANGED <<fixtures, owner, target, fails_list, replaced, waiting, twin>>
    /\ UNCHANGED wasmVars

RunStart == reply.kind = "Pending" /\ StartSome

RunWake == reply.kind = "Pending" /\ WakeSome

\* run_fixtures returns: its value does not read the futures; `service` is dropped.
RunReturn ==
    /\ reply.kind = "Pending"
    /\ reply' = run_fixtures(fixtures, last.gas_available)
    /\ readers' = readers - 1
    /\ UNCHANGED <<fixtures, owner, target, last, stream, trace, fails_list, replaced,
                   waiting, twin>>
    /\ UNCHANGED wasmVars

\* A CRUD command of another message finds the lock read-held and suspends.
CrudBlocked ==
    /\ ~WriteReady
    /\ Len(waiting) < MaxWaiting
    /\ \E c \in CrudCommands :
        /\ c.cmd = "AddFixture" => Len(fixtures) + Adds(waiting) < MaxFixtures
        /\ waiting' = Append(waiting, c)
    /\ UNCHANGED handlerVars
    /\ UNCHANGED <<readers, twin>>
    /\ UNCHANGED wasmVars

\* The lock is free: the longest suspended CRUD command runs.
CrudResumed ==
    /\ WriteReady
    /\ waiting # << >>
    /\ last' = Head(waiting)
    /\ fixtures' = ApplyCrud(fixtures, Head(waiting))[1]
    /\ reply' = ApplyCrud(fixtures, Head(waiting))[2]
    /\ waiting' = Tail(waiting)
    /\ stream' = NoStream
    /\ trace' = NoTrace
    /\ UNCHANGED <<owner, target, fails_list, replaced, readers, twin>>
    /\ UNCHANGED wasmVars

\* A CRUD command arrives with the lock free and runs at once.
CrudDirect ==
    /\ WriteReady
    /\ waiting = << >>
    /\ \E c \in CrudCommands :
        /\ c.cmd = "AddFixture" => Len(fixtures) < MaxFixtures
        /\ last' = c
        /\ fixtures' = ApplyCrud(fixtures, c)[1]
        /\ reply' = ApplyCrud(fixtures, c)[2]
    /\ stream' = NoStream
    /\ trace' = NoTrace
    /\ UNCHANGED <<owner, target, fails_list, replaced, readers, waiting, twin>>
    /\ UNCHANGED wasmVars

RunNext ==
    \/ RunBegin
    \/ RunStart
    \/ RunWake
    \/ RunReturn
    \/ CrudBlocked
    \/ CrudResumed
    \/ CrudDirect

RunSpec == RunInit /\ [][RunNext]_vars

(***************************************************************************)
(* Two Handlers that differ in their owner, given the same commands         *)
(***************************************************************************)
\* msg::source() of a command: either owner, or somebody else.
Senders == Owners \cup {"mallory"}

\* The commands a sender can dispatch on the collection fs.
Controls(fs) ==
    LET bodies ==
            {[cmd |-> "GetOwner"], [cmd |-> "GetFixtures"], [cmd |-> "ClearFixtures"]}
            \cup {[cmd |-> "ReplaceOwner", new_owner |-> o] : o \in Owners}
            \cup {[cmd |-> "RemoveFixture", index |-> i] : i \in 0 .. MaxFixtures}
            \cup {[cmd |-> "UpdateFixture", index |-> i, fixture |-> f] :
                    i \in 0 .. MaxFixtures, f \in RunPool}
            \cup {[cmd |-> "AddFixture", fixture |-> f] :
                    f \in IF Len(fs) < MaxFixtures THEN RunPool ELSE {}}
            \cup {[cmd |-> "RunFixtures", gas_available |-> g] : g \in RunGas(fs)}
    IN  {[control |-> b, sender |-> x] : b \in bodies, x \in Senders}

Handler(fs, o, r) == [fixtures |-> fs, owner |-> o, reply |-> r]

\* dispatch that serves only the owner's GetOwner-exempt commands.
dispatch_owner_only(h, m) ==
    LET c == m.control IN
    IF c.cmd # "GetOwner" /\ m.sender # h.owner
    THEN Handler(h.fixtures, h.owner, ReplyNotFound)
    ELSE CASE c.cmd = "GetOwner" -> Handler(h.fixtures, h.owner, ReplyOwner(h.owner))
           [] c.cmd = "ReplaceOwner" -> Handler(h.fixtures, c.new_owner, ReplyNone)
           [] c.cmd = "GetFixtures" -> Handler(h.fixtures, h.owner, ReplyFixtures(h.fixtures))
           [] c.cmd = "RunFixtures" ->
                Handler(h.fixtures, h.owner, run_fixtures(h.fixtures, c.gas_available))
           [] OTHER ->
                Handler(ApplyCrud(h.fixtures, c)[1], h.owner, ApplyCrud(h.fixtures, c)[2])

\* Handler::dispatch on the handler h = [fixtures, owner] for the message m:
\* the handler afterwards, with its reply.
dispatch(h, m) ==
    LET c == m.control IN
    CASE c.cmd = "GetOwner" -> Handler(h.fixtures, h.owner, ReplyOwner(h.owner))
      [] c.cmd = "ReplaceOwner" -> Handler(h.fixtures, c.new_owner, ReplyNone)
      [] c.cmd = "GetFixtures" -> Handler(h.fixtures, h.owner, ReplyFixtures(h.fixtures))
      [] c.cmd = "RemoveFixture" ->
            Handler(remove_fixture(h.fixtures, c.index)[1], h.owner,
                    remove_fixture(h.fixtures, c.index)[2])
      [] c.cmd = "UpdateFixture" ->
            Handler(update_fixture(h.fixtures, c.index, c.fixture)[1], h.owner,
                    update_fixture(h.fixtures, c.index, c.fixture)[2])
      [] c.cmd = "AddFixture" ->
            Handler(add_fixture(h.fixtures, c.fixture), h.owner, ReplyNone)
      [] c.cmd = "ClearFixtures" ->
            Handler(clear_fixtures(h.fixtures), h.owner, ReplyNone)
      [] c.cmd = "RunFixtures" ->
            Handler(h.fixtures, h.owner, run_fixtures(h.fixtures, c.gas_available))

OwnerInit ==
    /\ WasmIdle
    /\ readers = 0
    /\ waiting = << >>
    /\ fixtures = << >>
    /\ owner \in Owners
    /\ twin \in {Handler(<< >>, o, ReplyNone) : o \in Owners}
    /\ target = [p \in Payloads |-> OkReply(p)]
    /\ last = [control |-> [cmd |-> "Init"], sender |-> ""]
    /\ reply = ReplyNone
    /\ stream = NoStream
    /\ trace = NoTrace
    /\ fails_list = << >>
    /\ replaced = ""

\* Both handlers dispatch the same message.
DispatchBoth(cmd) ==
    \E m \in Controls(fixtures) :
        /\ m.control.cmd = cmd
        /\ last' = m
        /\ fixtures' = dispatch(Handler(fixtures, owner, reply), m).fixtures
        /\ owner' = dispatch(Handler(fixtures, owner, reply), m).owner
        /\ reply' = dispatch(Handler(fixtures, owner, reply), m).reply
        /\ twin' = dispatch(twin, m)
        /\ replaced' = IF cmd = "ReplaceOwner" THEN m.control.new_owner ELSE replaced
        /\ IF reply'.kind = "Report"
           THEN stream' = NewStream(fixtures) /\ trace' = NewTrace(fixtures)
           ELSE stream' = NoStream /\ trace' = NoTrace
        /\ UNCHANGED <<target, fails_list, readers, waiting>>
        /\ UNCHANGED wasmVars

BothGetOwner == DispatchBoth("GetOwner")
BothReplaceOwner == DispatchBoth("ReplaceOwner")
BothGetFixtures == DispatchBoth("GetFixtures")
BothRemoveFixture == DispatchBoth("RemoveFixture")
BothUpdateFixture == DispatchBoth("UpdateFixture")
BothAddFixture == DispatchBoth("AddFixture")
BothClearFixtures == DispatchBoth("ClearFixtures")
BothRunFixtures == DispatchBoth("RunFixtures")

OwnerNext ==
    \/ BothGetOwner
    \/ BothReplaceOwner
    \/ BothGetFixtures
    \/ BothRemoveFixture
    \/ BothUpdateFixture
    \/ BothAddFixture
    \/ BothClearFixtures
    \/ BothRunFixtures

OwnerSpec == OwnerInit /\ [][OwnerNext]_vars

(***************************************************************************)
(* The test program: handle, the test entry points, run_tests (wasm.rs)    *)
(***************************************************************************)
\* Actor ids: msg::source() and ControlSignal::deployed_actor of a message.
Actors == {"bus", "actor"}

\* Payloads handle() is given.
HandlePayloads == {"PING", "PONG", "ping", "PING ", "dummy", ""}

\* Functions annotated with the test macro.
Idents == {"a", "b"}

\* format!("test_{}", ident)
extern_ident(ident) == "test_" \o ident

TestEntries == {"test_smoky"} \cup {extern_ident(i) : i \in Idents}

TestStart(name) == [signal |-> "TestStart", name |-> name]
TestSuccess(name) == [signal |-> "TestSuccess", name |-> name]

\* msg::reply_bytes(payload, 0)
ReplyBytes(payload) == [via |-> "reply", to |-> "source", payload |-> payload]

\* msg::send(to, payload, 0)
Send(to, payload) == [via |-> "send", to |-> to, payload |-> payload]

\* handle() that answers every payload.
handle_always_pong(payload) == <<ReplyBytes("PONG")>>

\* handle(): the messages it sends for the payload.
handle(payload) ==
    IF payload = "PING" THEN <<ReplyBytes("PONG")>> ELSE << >>

\* TestContext::current()
TestContextCurrent(sig) ==
    [deployed_actor |-> sig.deployed_actor, control_bus |-> sig.source]

\* TestContext::send_progress
send_progress(context, msg) == Send(context.deployed_actor, msg)

\* The async block of test_smoky, not yet polled.
SmokyFuture == [kind |-> "smoky", name |-> "test_smoky", state |-> "pending"]

\* The async block of a generated test_<ident>, not yet polled;
\* test_name = stringify!(ident).
MacroFuture(ident) == [kind |-> "macro", name |-> ident, state |-> "pending"]

\* A registration that runs the future it registers.
push_started(futures, future) == Append(futures, [future EXCEPT !.state = "done"])

\* CONTEXT_FUTURES.push(test_future)
push(futures, future) == Append(futures, future)

\* What one poll of a future sends, in order; neither body awaits a message.
\* The generated body calls test_start and then the annotated function: it has
\* no epilogue.
Body(future, sig) ==
    LET context == TestContextCurrent(sig) IN
    IF future.kind = "smoky"
    THEN <<send_progress(context, TestStart(future.name)),
           send_progress(context, TestSuccess(future.name))>>
    ELSE <<send_progress(context, TestStart(future.name))>>

TestInit ==
    /\ LockIdle
    /\ WasmIdle
    /\ fixtures = << >>
    /\ owner = "alice"
    /\ target = [p \in Payloads |-> OkReply(p)]
    /\ last = [cmd |-> "Init"]
    /\ reply = ReplyNone
    /\ stream = NoStream
    /\ trace = NoTrace
    /\ fails_list = << >>
    /\ replaced = ""

Handle ==
    \E payload \in HandlePayloads, source \in Actors :
        /\ call' = [entry |-> "handle", payload |-> payload]
        /\ signal' = [source |-> source, deployed_actor |-> ""]
        /\ outbox' = handle(payload)
        /\ UNCHANGED CONTEXT_FUTURES
        /\ UNCHANGED handlerVars
        /\ UNCHANGED lockVars

test_smoky ==
    /\ Len(CONTEXT_FUTURES) < MaxTests
    /\ call' = [entry |-> "test_smoky"]
    /\ CONTEXT_FUTURES' = push(CONTEXT_FUTURES, SmokyFuture)
    /\ outbox' = << >>
    /\ UNCHANGED signal
    /\ UNCHANGED handlerVars
    /\ UNCHANGED lockVars

\* The extern function the test macro generates for ident.
test_ident ==
    \E ident \in Idents :
        /\ Len(CONTEXT_FUTURES) < MaxTests
        /\ call' = [entry |-> extern_ident(ident)]
        /\ CONTEXT_FUTURES' = push(CONTEXT_FUTURES, MacroFuture(ident))
        /\ outbox' = << >>
        /\ UNCHANGED signal
        /\ UNCHANGED handlerVars
        /\ UNCHANGED lockVars

\* run_tests: its body holds comments only.
run_tests ==
    /\ call' = [entry |-> "run_tests"]
    /\ outbox' = << >>
    /\ UNCHANGED <<CONTEXT_FUTURES, signal>>
    /\ UNCHANGED handlerVars
    /\ UNCHANGED lockVars

\* An executor polls a registered future while handling the message sig.
\* No code of the program does this; it is what a poll would do.
Poll ==
    \E i \in 1 .. Len(CONTEXT_FUTURES), source \in Actors, actor \in Actors :
        /\ CONTEXT_FUTURES[i].state = "pending"
        /\ call' = [entry |-> "poll", index |-> i]
        /\ signal' = [source |-> source, deployed_actor |-> actor]
        /\ outbox' = Body(CONTEXT_FUTURES[i], signal')
        /\ CONTEXT_FUTURES' = [CONTEXT_FUTURES EXCEPT ![i].state = "done"]
        /\ UNCHANGED handlerVars
        /\ UNCHANGED lockVars

TestNext ==
    \/ Handle
    \/ test_smoky
    \/ test_ident
    \/ run_tests
    \/ Poll

TestSpec == TestInit /\ [][TestNext]_vars

(***************************************************************************)
(* Helpers of the properties                                               *)
(***************************************************************************)
FixtureNos == 0 .. Len(fixtures) - 1

\* The fixture indices the returned report names.
ReportIndices == {reply.indices[j][1] : j \in 1 .. Len(reply.indices)}

\* The first expectation (1-based) of the fixture that fails against `target`
\* when every request is sent and answered by the table; 0 when none fails.
FirstFailing(fixture) ==
    LET failing == {k \in 1 .. Len(fixture.expectations) :
                        ExpectationCheck(fixture.expectations[k],
                                         target[fixture.expectations[k].request.payload])
                            # "pass"}
    IN  IF failing = {} THEN 0
        ELSE CHOOSE k \in failing : \A m \in failing : k <= m

ConstructedToFail(fixture) == FirstFailing(fixture) > 0

Admitted == last.cmd = "RunFixtures" /\ reply.kind = "Report"

\* The requests and replies of a fixture in list order: preparation[0], its
\* reply, preparation[1], ..., then expectation[0], its reply, ...
RECURSIVE StepEvents(_, _, _)
StepEvents(phase, reqs, k) ==
    IF k >= Len(reqs) THEN << >>
    ELSE <<SendEvent(phase, k, reqs[k + 1]), ReplyEvent(phase, k)>>
         \o StepEvents(phase, reqs, k + 1)

ExpectedTrace(fixture) ==
    StepEvents("prep", fixture.preparation, 0)
    \o StepEvents("exp",
                  [j \in 1 .. Len(fixture.expectations) |-> fixture.expectations[j].request],
                  0)

IsPrefix(s, t) == Len(s) <= Len(t) /\ \A j \in 1 .. Len(s) : s[j] = t[j]

(***************************************************************************)
(* Properties                                                              *)
(***************************************************************************)

\* C1 - Admission control: a RunFixtures dispatched with gas_available A below
\* the collection's gas_required R is answered NotEnoughGas{actual: A, needed: R},
\* and no future was built and no request or reply was exchanged with the target.
C1_AdmissionControl ==
    (last.cmd = "RunFixtures" /\ last.gas_available < gas_required(fixtures))
        => /\ reply = ReplyNotEnoughGas(last.gas_available, gas_required(fixtures))
           /\ \A no \in DOMAIN trace : trace[no] = << >>
           /\ DOMAIN stream = {}

C1_Witness ==
    /\ last.cmd = "RunFixtures"
    /\ Len(fixtures) = 2
    /\ last.gas_available > 0
    /\ last.gas_available < gas_required(fixtures)
    /\ reply.kind = "NotEnoughGas"

\* C2 - Aggregation completeness: the report of an admitted run names exactly
\* the fixtures that fail against the target (here: those with an expectation
\* the target's answer does not satisfy).
C2_AggregationCompleteness ==
    Admitted => ReportIndices = {no \in FixtureNos : ConstructedToFail(fixtures[no + 1])}

\* C3 - Run completion ordering: when an admitted run returns its report, the
\* future of every fixture has run to its end (no unsent step, no outstanding
\* request).
C3_RunCompletionOrdering ==
    Admitted => \A no \in FixtureNos : no \in DOMAIN stream /\ stream[no].pc = "done"

\* C4 - Strict sequential order inside one fixture: what a fixture's future has
\* exchanged with the target is always a prefix of send preparation[0], reply,
\* send preparation[1], reply, ..., send expectation[0], reply, ...: requests
\* go out in list order, each only after the reply to the previous one.
C4_SequentialOrder ==
    \A no \in DOMAIN trace : IsPrefix(trace[no], ExpectedTrace(fixtures[no + 1]))

C4_Witness ==
    \E no \in DOMAIN trace :
        /\ Len(fixtures[no + 1].preparation) = 2
        /\ Len(trace[no]) = 6
        /\ trace[no][5].kind = "send" /\ trace[no][5].phase = "exp"

\* C5 - Short-circuit on first failure: when an admitted run returns, a fixture
\* whose first failing expectation is k has its index in the report, no request
\* of an expectation after k was sent for it, and the fixtures that do not fail
\* are not reported.
C5_ShortCircuitRecorded ==
    Admitted =>
        \A no \in FixtureNos :
            LET k == FirstFailing(fixtures[no + 1])
            IN  IF k > 0
                THEN /\ no \in ReportIndices
                     /\ \A j \in 1 .. Len(trace[no]) :
                            ~(trace[no][j].kind = "send" /\ trace[no][j].phase = "exp"
                              /\ trace[no][j].step + 1 > k)
                ELSE no \notin ReportIndices

\* C6 - Exact-match expectation: after an admitted run, a fixture with no
\* preparation and one expectation Some(X) is in the report when the target
\* answers its request with a payload other than X, and is not when it answers X.
C6_ExactMatch ==
    Admitted =>
        \A no \in FixtureNos :
            LET f == fixtures[no + 1] IN
            (Len(f.preparation) = 0 /\ Len(f.expectations) = 1
             /\ f.expectations[1].response.payload.some
             /\ target[f.expectations[1].request.payload].ok)
                => (no \in ReportIndices
                        <=> target[f.expectations[1].request.payload].payload
                                # f.expectations[1].response.payload.v)

\* C7 - Don't-care expectation: when the reply to an expectation whose expected
\* payload is None arrives without a target-side error, the fixture passes that
\* step whatever the payload; the future ends at such a step only with
\* ExpectationExecutionFail, on an error reply.
C7_DontCare ==
    [][\A no \in DOMAIN stream :
          (/\ stream[no].pc = "exp"
           /\ ~fixtures[no + 1].expectations[stream[no].step + 1].response.payload.some
           /\ stream'[no] # stream[no])
              => /\ stream'[no].result.ok
                    => /\ stream'[no].step = stream[no].step + 1
                       /\ stream'[no].output \notin {"PayloadMismatch", "ExpectationExecutionFail"}
                 /\ ~stream'[no].result.ok
                    => /\ stream'[no].pc = "done"
                       /\ stream'[no].step = stream[no].step
                       /\ stream'[no].output = "ExpectationExecutionFail"]_vars

C7_Witness ==
    \E no \in DOMAIN stream :
        /\ Len(fixtures[no + 1].expectations) = 2
        /\ ~fixtures[no + 1].expectations[1].response.payload.some
        /\ stream[no].pc = "exp"
        /\ stream[no].step = 1
        /\ stream[no].result = OkReply("Y")

\* C8 - CRUD bounds: RemoveFixture{index} and UpdateFixture{index, fixture} with
\* index >= len are answered NotFound and leave the collection as it was; with
\* index < len they are answered Ok.
C8_CrudBounds ==
    [][last'.cmd \in {"RemoveFixture", "UpdateFixture"}
          => IF last'.index >= Len(fixtures)
             THEN reply' = ReplyNotFound /\ fixtures' = fixtures
             ELSE reply' = ReplyOk]_vars

C8_Witness ==
    /\ last.cmd = "UpdateFixture"
    /\ last.index = Len(fixtures)
    /\ Len(fixtures) = 2
    /\ fixtures[1] # fixtures[2]
    /\ last.fixture \notin {fixtures[1], fixtures[2]}
    /\ reply = ReplyNotFound

\* C9 - Index compaction: RemoveFixture{index: i} with i < len shortens the
\* collection by one, keeps the fixtures below i in place and moves each fixture
\* at j > i to j - 1; UpdateFixture{index: i} with i < len keeps the length and
\* every element other than i.
C9_IndexCompaction ==
    [][/\ (last'.cmd = "RemoveFixture" /\ last'.index < Len(fixtures))
            => /\ Len(fixtures') = Len(fixtures) - 1
               /\ \A j \in 0 .. Len(fixtures) - 1 :
                    /\ j < last'.index => fixtures'[j + 1] = fixtures[j + 1]
                    /\ j > last'.index => fixtures'[j] = fixtures[j + 1]
       /\ (last'.cmd = "UpdateFixture" /\ last'.index < Len(fixtures))
            => /\ Len(fixtures') = Len(fixtures)
               /\ \A j \in 0 .. Len(fixtures) - 1 :
                    j # last'.index => fixtures'[j + 1] = fixtures[j + 1]]_vars

C9_Witness ==
    /\ last.cmd = "RemoveFixture"
    /\ last.index = 0
    /\ reply = ReplyOk
    /\ Len(fixtures) = 1
    /\ fixtures[1] = Fixture(<< >>, << Expectation("X", 1, Some("X")) >>)

\* C10 - Owner read-after-write: ReplaceOwner{new_owner: o} sets the owner to o,
\* no other command changes the owner, and once an owner was replaced GetOwner
\* answers the new_owner of the latest ReplaceOwner.
C10_OwnerReadAfterWrite ==
    [][/\ last'.cmd = "ReplaceOwner" => owner' = last'.new_owner
       /\ last'.cmd # "ReplaceOwner" => owner' = owner
       /\ (last'.cmd = "GetOwner" /\ replaced # "") => reply' = ReplyOwner(replaced)]_vars

C10_Witness ==
    /\ last.cmd = "GetOwner"
    /\ replaced = "bob"
    /\ reply = ReplyOwner("bob")

\* The requests of a fixture in list order: the preparations, then the expectations.
AllRequests(fixture) ==
    fixture.preparation
    \o [j \in 1 .. Len(fixture.expectations) |-> fixture.expectations[j].request]

\* The number of events of one kind in a fixture's trace.
Count(tr, kind) == Cardinality({j \in 1 .. Len(tr) : tr[j].kind = kind})

\* The requests of a fixture that were sent and are not replied yet.
Outstanding(no) == Count(trace[no], "send") - Count(trace[no], "reply")

RECURSIVE SumOutstanding(_)
SumOutstanding(nos) ==
    IF nos = {} THEN 0
    ELSE LET no == CHOOSE x \in nos : TRUE
         IN  Outstanding(no) + SumOutstanding(nos \ {no})

\* C17 - Preparation replies are not validated: when the reply to a preparation
\* request arrives, whatever it is (any payload, or an error), the future does
\* not fail on it: it sends the next step in list order (the next preparation,
\* or expectation[0] after the last one) and waits for that reply, or ends Ok
\* when no step is left, or ends on the failure to send that next step.
C17_PreparationNotValidated ==
    [][\A no \in DOMAIN stream :
          (stream[no].pc = "prep" /\ stream'[no] # stream[no])
              => LET reqs == AllRequests(fixtures[no + 1])
                     n == (Len(trace[no]) + 1) \div 2 + 1   \* position of the next step in reqs
                     nprep == Len(fixtures[no + 1].preparation)
                 IN  /\ stream'[no].output
                            \in {"none", "Ok", "PreparationSendFail", "ExpectationSendFail"}
                     /\ stream'[no].output = "Ok" => n > Len(reqs)
                     /\ stream'[no].output = "PreparationSendFail"
                            => n <= nprep /\ stream'[no].step = stream[no].step + 1
                     /\ stream'[no].output = "ExpectationSendFail"
                            => n = nprep + 1 /\ n <= Len(reqs)
                     /\ stream'[no].output = "none"
                            => /\ n <= Len(reqs)
                               /\ trace'[no] = trace[no]
                                    \o <<ReplyEvent("prep", stream[no].step),
                                         SendEvent(IF n <= nprep THEN "prep" ELSE "exp",
                                                   IF n <= nprep THEN n - 1 ELSE 0,
                                                   reqs[n])>>]_vars

C17_Witness ==
    \E no \in DOMAIN stream :
        /\ Len(fixtures[no + 1].preparation) = 1
        /\ stream[no].pc = "exp"
        /\ stream[no].step = 0
        /\ stream[no].result = ErrReply
        /\ Len(trace[no]) = 3

\* C18 - Bounded fan-out: each fixture has at most one request outstanding, and
\* has one exactly while its future is suspended; the outstanding requests of a
\* run never outnumber its fixtures; every request goes to the service's target
\* address.
C18_BoundedFanOut ==
    /\ \A no \in DOMAIN stream :
        /\ Outstanding(no) \in {0, 1}
        /\ Outstanding(no) = 1 <=> stream[no].pc \in {"prep", "exp"}
        /\ \A j \in 1 .. Len(trace[no]) :
                trace[no][j].kind = "send" => trace[no][j].to = address
    /\ SumOutstanding(DOMAIN stream) <= Len(fixtures)

C18_Witness ==
    /\ Len(fixtures) = 2
    /\ SumOutstanding(DOMAIN stream) = 2
    /\ \E no \in DOMAIN stream : Len(trace[no]) = 3

\* C19 - Preparation send failure ends the fixture: a future that ended with
\* PreparationSendFail has exchanged only the preparations before the failed
\* one, each with its reply, sent no expectation, and never moves or sends
\* again; the futures of the other fixtures can still be driven.
C19_PreparationSendFail ==
    /\ [](\A no \in DOMAIN stream :
            stream[no].output = "PreparationSendFail"
                => /\ stream[no].pc = "done"
                   /\ stream[no].step < Len(fixtures[no + 1].preparation)
                   /\ Len(trace[no]) = 2 * stream[no].step
                   /\ \A j \in 1 .. Len(trace[no]) : trace[no][j].phase = "prep"
                   /\ (\E m \in DOMAIN stream : stream[m].pc # "done") => ENABLED FutureNext)
    /\ [][\A no \in DOMAIN stream :
            stream[no].output = "PreparationSendFail"
                => stream'[no] = stream[no] /\ trace'[no] = trace[no]]_vars

C19_Witness ==
    \E no, m \in DOMAIN stream :
        /\ stream[no].output = "PreparationSendFail"
        /\ stream[no].step = 1
        /\ stream[m].output = "Ok"
        /\ Len(trace[m]) = 4

\* C11 - Reader/writer exclusion between a run and CRUD: from admission until
\* run_fixtures returns a read guard is alive; while the run is in flight no
\* step changes the fixture collection, and a step that changes it starts with
\* no read guard alive and no run in flight.
C11_RunExcludesCrud ==
    /\ [](reply.kind = "Pending" => readers > 0)
    /\ [][/\ reply.kind = "Pending" => fixtures' = fixtures
          /\ fixtures' # fixtures => readers = 0 /\ reply.kind # "Pending"]_vars

C11_Witness ==
    /\ reply.kind = "Pending"
    /\ waiting # << >>
    /\ waiting[1].cmd = "RemoveFixture"
    /\ Len(fixtures) = 2
    /\ \E no \in DOMAIN stream : stream[no].pc = "exp" /\ Len(trace[no]) = 3

\* C12 - Only admission can reject a run: RunFixtures is answered NotEnoughGas
\* exactly when gas_available < gas_required; with gas_available >= gas_required
\* (equality included) the run is admitted and returns a report, whatever the
\* futures of its fixtures ended with.
C12_OnlyAdmissionRejects ==
    last.cmd = "RunFixtures"
        => /\ reply.kind \in {"NotEnoughGas", "Pending", "Report"}
           /\ reply.kind = "NotEnoughGas" <=> last.gas_available < gas_required(fixtures)

C12_Witness ==
    /\ last.cmd = "RunFixtures"
    /\ reply.kind = "Report"
    /\ last.gas_available = gas_required(fixtures)
    /\ \E no, m \in DOMAIN stream :
        /\ stream[no].output = "PayloadMismatch"
        /\ stream[m].output \in {"PreparationSendFail", "ExpectationExecutionFail"}

\* C20 - Dispatch is independent of the owner: two handlers that start with the
\* same collection and any two owners, given the same messages from any sender,
\* always hold the same collection and, for every command but GetOwner, give the
\* same reply; ReplaceOwner takes effect in both whoever sent it.
C20_OwnerIndependent ==
    last.control.cmd # "Init"
        => /\ twin.fixtures = fixtures
           /\ last.control.cmd # "GetOwner" => twin.reply = reply
           /\ last.control.cmd = "ReplaceOwner"
                => owner = last.control.new_owner /\ twin.owner = last.control.new_owner

C20_Witness ==
    /\ last.control.cmd = "RemoveFixture"
    /\ last.sender = "mallory"
    /\ reply = ReplyOk
    /\ twin.reply = ReplyOk
    /\ twin.owner # owner
    /\ Len(fixtures) = 1

\* C13 - run_tests drives every registered coroutine to completion and leaves
\* the Pending Task Set empty.
C13_RunDrains ==
    call.entry = "run_tests" => CONTEXT_FUTURES = << >>

\* C14 - Registration does not start execution: a test entry point appends
\* exactly one pending coroutine, leaves the earlier ones untouched and in
\* order, and sends nothing; progress messages are sent by polls only.
C14_RegistrationOnly ==
    /\ [](outbox # << >> => call.entry \in {"poll", "handle"})
    /\ [][call'.entry \in TestEntries
            => /\ Len(CONTEXT_FUTURES') = Len(CONTEXT_FUTURES) + 1
               /\ SubSeq(CONTEXT_FUTURES', 1, Len(CONTEXT_FUTURES)) = CONTEXT_FUTURES
               /\ CONTEXT_FUTURES'[Len(CONTEXT_FUTURES')].state = "pending"
               /\ outbox' = << >>]_vars

C14_Witness ==
    /\ call.entry = extern_ident("a")
    /\ Len(CONTEXT_FUTURES) = 3
    /\ CONTEXT_FUTURES[1].kind = "smoky" /\ CONTEXT_FUTURES[1].state = "done"
    /\ CONTEXT_FUTURES[2].state = "pending"
    /\ CONTEXT_FUTURES[3] = MacroFuture("a")
    /\ outbox = << >>

\* C15 - Progress reporting: a coroutine that ran to completion sent exactly
\* TestStart(name) and then TestSuccess(name), both to the control bus (the
\* source of the message that carried the ControlSignal).
C15_ProgressToControlBus ==
    call.entry = "poll"
        => outbox = <<Send(signal.source, TestStart(CONTEXT_FUTURES[call.index].name)),
                      Send(signal.source, TestSuccess(CONTEXT_FUTURES[call.index].name))>>

\* C16 - Liveness probe: handle replies "PONG" iff the payload is exactly
\* "PING", sends nothing for any other payload, and touches neither
\* CONTEXT_FUTURES nor the fixture state.
C16_LivenessProbe ==
    /\ [](call.entry = "handle"
            => /\ call.payload = "PING" <=> outbox = <<ReplyBytes("PONG")>>
               /\ call.payload # "PING" => outbox = << >>)
    /\ [][call'.entry = "handle"
            => /\ CONTEXT_FUTURES' = CONTEXT_FUTURES
               /\ handlerVars' = handlerVars]_vars

C16_Witness ==
    /\ call = [entry |-> "handle", payload |-> "dummy"]
    /\ outbox = << >>
    /\ Len(CONTEXT_FUTURES) = 2
    /\ CONTEXT_FUTURES[1].state = "pending"

====
